---- MODULE Spec2Model ----
(***************************************************************************)
(* Booking lifecycle of the Parkezy backend (bookings/views.py,            *)
(* bookings/serializers.py, bookings/models.py) as a state machine over    *)
(* the booking_sessions and dispute_reports tables.  One action per        *)
(* request handler of BookingSessionViewSet and DisputeReportViewSet;      *)
(* every handler runs to completion (load, guard,                          *)
(* in-memory changes, save, response).  A handler loads and saves only the *)
(* row its pk names, so the table is followed through the rows BookingIds  *)
(* names.                                                                  *)
(***************************************************************************)
EXTENDS Integers, FiniteSets, Sequences, TLC

\* ------------------------------------------------------------------ bounds
MaxTicks    == 2          \* clock readings after the initial one
TickMinutes == 8          \* minutes between two clock readings

\* --------------------------------------------------------------- constants
NULL   == -1              \* a null column (null=True)
ABSENT == -2              \* a key the request data does not carry

STATUS_CHOICES == {"pending", "confirmed", "active", "completed", "cancelled", "disputed"}

OVERSTAY_BLOCK_MINUTES == 15
OVERSTAY_BLOCK_FEE     == 20

HTTP_200_OK                    == 200
HTTP_201_CREATED               == 201
HTTP_204_NO_CONTENT            == 204
HTTP_400_BAD_REQUEST           == 400
HTTP_404_NOT_FOUND             == 404
HTTP_500_INTERNAL_SERVER_ERROR == 500

\* ------------------------------------------------------------------ inputs
Users       == {"driver", "other", "admin"}
Drivers     == {"driver"}                 \* users who make bookings
BookingIds  == {"b1"}                     \* primary keys (uuid4) of the rows followed
SchedEnds   == {0}                        \* scheduled_end_time a client sends
Costs       == {100}                      \* total_cost a client sends at creation

is_staff(user) == user = "admin"

VARIABLES
    bookings,   \* the booking_sessions table: pk -> row
    hist,       \* per pk: the cost agreed at creation, whether status was ever active
    now,        \* timezone.now(), in minutes
    resp,       \* the response to the latest request
    disputes,   \* the dispute_reports table: pk -> row
    spots,      \* the parking_spots table: pk -> row
    facilities, \* the commercial_parking_facilities table: pk -> row
    slots,      \* the commercial_parking_slots table: pk -> row
    listings,   \* the private_parking_listings table: pk -> row
    listing_slots, \* the private_parking_slots table: pk -> row
    inflight    \* per worker: the request it is serving, between its database calls

\* the tables of the parking app
parking == <<spots, facilities, slots, listings, listing_slots>>

vars == <<bookings, hist, now, resp, disputes, parking, inflight>>

\* the workers that serve requests side by side
Requests == {"r1", "r2"}

\* a worker between two requests
IdleRequest ==
    [pc |-> "idle", op |-> "none", pk |-> "none", local |-> <<>>, status_code |-> 0]

\* seq is the parity of the number of requests answered: it tells a request
\* answered like the one before it from no request at all
NoResponse == [op |-> "none", pk |-> "none", status_code |-> 0, seq |-> 0, data |-> <<>>]

\* error text naming the status the booking is in
error_data_current_status(op, pk) ==
    [error |-> <<"Booking", "is", bookings[pk].status>>]

\* The body start, end and cancel send with their 400: one fixed text each,
\* kept as its words.
error_data(op, pk) ==
    CASE op = "start"  -> [error |-> <<"Only", "confirmed", "bookings", "can", "be",
                                       "started">>]
      [] op = "end"    -> [error |-> <<"Only", "active", "bookings", "can", "be",
                                       "ended">>]
      [] op = "cancel" -> [error |-> <<"Cannot", "cancel", "completed", "or",
                                       "already", "cancelled", "bookings">>]

\* data is the body where a claim reads it, else empty
Response(op, user, pk, code) ==
    [op |-> op, pk |-> pk, status_code |-> code, seq |-> 1 - resp.seq,
     data |-> IF code = HTTP_400_BAD_REQUEST /\ op \in {"start", "end", "cancel"}
              THEN error_data(op, pk) ELSE <<>>]

\* ---------------------------------------------------------------- queryset
\* BookingSessionViewSet.get_queryset without query parameters
get_queryset(user) ==
    {pk \in DOMAIN bookings : is_staff(user) \/ bookings[pk].user = user}

\* GenericAPIView.get_object: the row of the filtered queryset, else 404
found(user, pk) == pk \in get_queryset(user)

\* Model.save() of one loaded row, with the status history kept beside it
save(pk, booking) ==
    /\ bookings' = [bookings EXCEPT ![pk] = booking]
    /\ hist' = [hist EXCEPT ![pk].reached_active = @ \/ booking.status = "active"]

NotFound(op, user, pk) ==
    /\ ~found(user, pk)
    /\ resp' = Response(op, user, pk, HTTP_404_NOT_FOUND)
    /\ UNCHANGED <<bookings, hist, now, disputes, parking, inflight>>

\* ------------------------------------------------------------------ create
\* create without validated_data['status'] = 'confirmed': the model default
create_model_default(user, pk, sched_end, cost) ==
    /\ pk \notin DOMAIN hist
    /\ LET booking == [user |-> user,
                       scheduled_end_time |-> sched_end,
                       actual_start_time |-> NULL,
                       actual_end_time |-> NULL,
                       total_cost |-> cost,
                       overstay_fee |-> NULL,
                       status |-> "pending"]
       IN /\ bookings' = bookings @@ (pk :> booking)
          /\ hist' = hist @@ (pk :> [agreed_cost |-> cost, reached_active |-> FALSE])
          /\ resp' = Response("create", user, pk, HTTP_201_CREATED)
    /\ UNCHANGED <<now, disputes, parking, inflight>>

\* pk is the fresh uuid4 default of the new row: never one used before
create(user, pk, sched_end, cost) ==
    /\ pk \notin DOMAIN hist
    /\ LET booking == [user |-> user,
                       scheduled_end_time |-> sched_end,
                       actual_start_time |-> NULL,
                       actual_end_time |-> NULL,
                       total_cost |-> cost,
                       overstay_fee |-> NULL,
                       status |-> "confirmed"]
       IN /\ bookings' = bookings @@ (pk :> booking)
          /\ hist' = hist @@ (pk :> [agreed_cost |-> cost, reached_active |-> FALSE])
          /\ resp' = Response("create", user, pk, HTTP_201_CREATED)
    /\ UNCHANGED <<now, disputes, parking, inflight>>

\* Request bodies of POST /bookings/: of the keys a client sends, only those in
\* BookingSessionCreateSerializer.Meta.fields reach validated_data; status,
\* user and actual_start_time are not among them.
CreateData ==
    [scheduled_end_time : SchedEnds, total_cost : Costs,
     status : {"absent", "active"}, user : {"absent", "other"},
     actual_start_time : {ABSENT, 0}]

perform_create(user, pk, data) ==
    create(user, pk, data.scheduled_end_time, data.total_cost)

\* ------------------------------------------------------------------- start
\* start with the guard also letting pending bookings through
start_from_pending(user, pk) ==
    \/ NotFound("start", user, pk)
    \/ /\ found(user, pk)
       /\ LET booking == bookings[pk] IN
          IF booking.status \notin {"confirmed", "pending"}
          THEN /\ resp' = Response("start", user, pk, HTTP_400_BAD_REQUEST)
               /\ UNCHANGED <<bookings, hist>>
          ELSE /\ save(pk, [booking EXCEPT !.actual_start_time = now,
                                           !.status = "active"])
               /\ resp' = Response("start", user, pk, HTTP_200_OK)
       /\ UNCHANGED <<now, disputes, parking, inflight>>

\* start with the guard also letting cancelled bookings through
start_from_cancelled(user, pk) ==
    \/ NotFound("start", user, pk)
    \/ /\ found(user, pk)
       /\ LET booking == bookings[pk] IN
          IF booking.status \notin {"confirmed", "cancelled"}
          THEN /\ resp' = Response("start", user, pk, HTTP_400_BAD_REQUEST)
               /\ UNCHANGED <<bookings, hist>>
          ELSE /\ save(pk, [booking EXCEPT !.actual_start_time = now,
                                           !.status = "active"])
               /\ resp' = Response("start", user, pk, HTTP_200_OK)
       /\ UNCHANGED <<now, disputes, parking, inflight>>

start(user, pk) ==
    \/ NotFound("start", user, pk)
    \/ /\ found(user, pk)
       /\ LET booking == bookings[pk] IN
          IF booking.status # "confirmed"
          THEN /\ resp' = Response("start", user, pk, HTTP_400_BAD_REQUEST)
               /\ UNCHANGED <<bookings, hist>>
          ELSE /\ save(pk, [booking EXCEPT !.actual_start_time = now,
                                           !.status = "active"])
               /\ resp' = Response("start", user, pk, HTTP_200_OK)
       /\ UNCHANGED <<now, disputes, parking, inflight>>

\* --------------------------------------------------------------------- end
\* (actual_end_time - scheduled_end_time).total_seconds() / 60: a float
overstay_duration(actual_end, sched_end) ==
    [type |-> "float", val |-> actual_end - sched_end]

\* (overstay_duration // 15) * 20: float // int and float * int are floats
overstay_fee_of(duration) ==
    [type |-> duration.type,
     val  |-> (duration.val \div OVERSTAY_BLOCK_MINUTES) * OVERSTAY_BLOCK_FEE]

\* total_cost += fee on the Decimal a DecimalField loads: Decimal.__add__
\* accepts a Decimal or an int; with a float the statement raises TypeError
decimal_iadd(total_cost, fee) ==
    IF fee.type \in {"Decimal", "int"}
    THEN [raised |-> FALSE, val |-> total_cost + fee.val]
    ELSE [raised |-> TRUE, val |-> total_cost]

\* end stamping and saving actual_end_time before it tests the status
end_stamps_before_guard(user, pk) ==
    \/ NotFound("end", user, pk)
    \/ /\ found(user, pk)
       /\ LET booking == bookings[pk]
              stamped == [booking EXCEPT !.actual_end_time = now]
              ended   == [stamped EXCEPT !.status = "completed"]
              fee     == overstay_fee_of(
                             overstay_duration(ended.actual_end_time,
                                               booking.scheduled_end_time))
              total   == decimal_iadd(ended.total_cost, fee)
          IN
          IF booking.status # "active"
          THEN /\ save(pk, stamped)
               /\ resp' = Response("end", user, pk, HTTP_400_BAD_REQUEST)
          ELSE IF ended.actual_end_time > booking.scheduled_end_time
          THEN IF total.raised
               THEN /\ resp' = Response("end", user, pk,
                                        HTTP_500_INTERNAL_SERVER_ERROR)
                    /\ UNCHANGED <<bookings, hist>>
               ELSE /\ save(pk, [ended EXCEPT !.overstay_fee = fee.val,
                                              !.total_cost = total.val])
                    /\ resp' = Response("end", user, pk, HTTP_200_OK)
          ELSE /\ save(pk, ended)
               /\ resp' = Response("end", user, pk, HTTP_200_OK)
       /\ UNCHANGED <<now, disputes, parking, inflight>>

\* end with the guard also letting disputed bookings through
end_from_disputed(user, pk) ==
    \/ NotFound("end", user, pk)
    \/ /\ found(user, pk)
       /\ LET booking == bookings[pk]
              ended   == [booking EXCEPT !.actual_end_time = now,
                                         !.status = "completed"]
              fee     == overstay_fee_of(
                             overstay_duration(ended.actual_end_time,
                                               booking.scheduled_end_time))
              total   == decimal_iadd(ended.total_cost, fee)
          IN
          IF booking.status \notin {"active", "disputed"}
          THEN /\ resp' = Response("end", user, pk, HTTP_400_BAD_REQUEST)
               /\ UNCHANGED <<bookings, hist>>
          ELSE IF ended.actual_end_time > booking.scheduled_end_time
          THEN IF total.raised
               THEN /\ resp' = Response("end", user, pk,
                                        HTTP_500_INTERNAL_SERVER_ERROR)
                    /\ UNCHANGED <<bookings, hist>>
               ELSE /\ save(pk, [ended EXCEPT !.overstay_fee = fee.val,
                                              !.total_cost = total.val])
                    /\ resp' = Response("end", user, pk, HTTP_200_OK)
          ELSE /\ save(pk, ended)
               /\ resp' = Response("end", user, pk, HTTP_200_OK)
       /\ UNCHANGED <<now, disputes, parking, inflight>>

end(user, pk) ==
    \/ NotFound("end", user, pk)
    \/ /\ found(user, pk)
       /\ LET booking == bookings[pk]
              ended   == [booking EXCEPT !.actual_end_time = now,
                                         !.status = "completed"]
              fee     == overstay_fee_of(
                             overstay_duration(ended.actual_end_time,
                                               booking.scheduled_end_time))
              total   == decimal_iadd(ended.total_cost, fee)
          IN
          IF booking.status # "active"
          THEN /\ resp' = Response("end", user, pk, HTTP_400_BAD_REQUEST)
               /\ UNCHANGED <<bookings, hist>>
          ELSE IF ended.actual_end_time > booking.scheduled_end_time
          THEN IF total.raised
               THEN \* the exception leaves the handler before booking.save()
                    /\ resp' = Response("end", user, pk,
                                        HTTP_500_INTERNAL_SERVER_ERROR)
                    /\ UNCHANGED <<bookings, hist>>
               ELSE /\ save(pk, [ended EXCEPT !.overstay_fee = fee.val,
                                              !.total_cost = total.val])
                    /\ resp' = Response("end", user, pk, HTTP_200_OK)
          ELSE /\ save(pk, ended)
               /\ resp' = Response("end", user, pk, HTTP_200_OK)
       /\ UNCHANGED <<now, disputes, parking, inflight>>

\* ------------------------------------------------------------------ cancel
\* cancel with the guard testing only for cancelled
cancel_completed(user, pk) ==
    \/ NotFound("cancel", user, pk)
    \/ /\ found(user, pk)
       /\ LET booking == bookings[pk] IN
          IF booking.status \in {"cancelled"}
          THEN /\ resp' = Response("cancel", user, pk, HTTP_400_BAD_REQUEST)
               /\ UNCHANGED <<bookings, hist>>
          ELSE /\ save(pk, [booking EXCEPT !.status = "cancelled"])
               /\ resp' = Response("cancel", user, pk, HTTP_200_OK)
       /\ UNCHANGED <<now, disputes, parking, inflight>>

\* cancel with no guard at all
cancel_unguarded(user, pk) ==
    \/ NotFound("cancel", user, pk)
    \/ /\ found(user, pk)
       /\ save(pk, [bookings[pk] EXCEPT !.status = "cancelled"])
       /\ resp' = Response("cancel", user, pk, HTTP_200_OK)
       /\ UNCHANGED <<now, disputes, parking, inflight>>

cancel(user, pk) ==
    \/ NotFound("cancel", user, pk)
    \/ /\ found(user, pk)
       /\ LET booking == bookings[pk] IN
          IF booking.status \in {"completed", "cancelled"}
          THEN /\ resp' = Response("cancel", user, pk, HTTP_400_BAD_REQUEST)
               /\ UNCHANGED <<bookings, hist>>
          ELSE /\ save(pk, [booking EXCEPT !.status = "cancelled"])
               /\ resp' = Response("cancel", user, pk, HTTP_200_OK)
       /\ UNCHANGED <<now, disputes, parking, inflight>>

\* ------------------------------------------------- update / partial_update
\* Request bodies of PUT and PATCH: each field of BookingSessionUpdateSerializer
\* is either missing from the body or carries a value.
UpdateStatuses == STATUS_CHOICES \cup {"bogus"}
NoData ==
    [status |-> "absent", actual_start_time |-> ABSENT, actual_end_time |-> ABSENT,
     overstay_fee |-> ABSENT, total_cost |-> ABSENT]
UpdateData ==
    {[NoData EXCEPT !.status = s] : s \in UpdateStatuses}
    \cup {[NoData EXCEPT !.actual_start_time = t] : t \in {NULL, now}}
    \cup {[NoData EXCEPT !.actual_end_time = t] : t \in {NULL, now}}
    \cup {[NoData EXCEPT !.overstay_fee = f] : f \in {NULL, OVERSTAY_BLOCK_FEE}}
    \cup {[NoData EXCEPT !.total_cost = c] : c \in {NULL, 0}}
    \cup {[status |-> s, actual_start_time |-> NULL, actual_end_time |-> now,
           overstay_fee |-> NULL, total_cost |-> 0] : s \in {"pending", "active"}}

\* serializer.is_valid(): status is a choice field, total_cost is not
\* nullable and is required unless the update is partial
is_valid(data, partial) ==
    /\ data.status \in STATUS_CHOICES \cup {"absent"}
    /\ data.total_cost # NULL
    /\ partial \/ data.total_cost # ABSENT

\* ModelSerializer.update: setattr for every validated field, then save
perform_update(booking, data) ==
    [booking EXCEPT
        !.status            = IF data.status = "absent" THEN @ ELSE data.status,
        !.actual_start_time = IF data.actual_start_time = ABSENT THEN @
                              ELSE data.actual_start_time,
        !.actual_end_time   = IF data.actual_end_time = ABSENT THEN @
                              ELSE data.actual_end_time,
        !.overstay_fee      = IF data.overstay_fee = ABSENT THEN @
                              ELSE data.overstay_fee,
        !.total_cost        = IF data.total_cost = ABSENT THEN @
                              ELSE data.total_cost]

\* self.action of a PUT (partial = FALSE) and of a PATCH (partial = TRUE)
action_name(partial) == IF partial THEN "partial_update" ELSE "update"

update(user, pk, data, partial) ==
    \/ NotFound(action_name(partial), user, pk)
    \/ /\ found(user, pk)
       /\ IF ~is_valid(data, partial)
          THEN /\ resp' = Response(action_name(partial), user, pk,
                                   HTTP_400_BAD_REQUEST)
               /\ UNCHANGED <<bookings, hist>>
          ELSE /\ save(pk, perform_update(bookings[pk], data))
               /\ resp' = Response(action_name(partial), user, pk, HTTP_200_OK)
       /\ UNCHANGED <<now, disputes, parking, inflight>>

\* ----------------------------------------------------------------- destroy
destroy(user, pk) ==
    \/ NotFound("destroy", user, pk)
    \/ /\ found(user, pk)
       /\ bookings' = [k \in DOMAIN bookings \ {pk} |-> bookings[k]]
       \* DisputeReport.booking is on_delete=CASCADE
       /\ disputes' = [d \in {k \in DOMAIN disputes : disputes[k].booking # pk}
                          |-> disputes[d]]
       /\ resp' = Response("destroy", user, pk, HTTP_204_NO_CONTENT)
       /\ UNCHANGED <<hist, now, parking, inflight>>

\* ---------------------------------------------------------------- disputes
\* DisputeReportViewSet over the dispute_reports table.  A row keeps the
\* columns the handlers decide on: booking, status, resolution, resolved_at
\* (reason, description and photo_urls are carried along unread).
DISPUTE_STATUS_CHOICES == {"pending", "under_review", "resolved", "rejected"}

HTTP_403_FORBIDDEN == 403

None        == "None"                     \* a null text, or request.data.get of a missing key
DisputeIds  == {"d1"}                     \* primary keys (uuid4) of the rows followed
Resolutions == {None, "", "refund", "no refund"}

\* DisputeReportViewSet.get_queryset
dispute_get_queryset(user) ==
    {id \in DOMAIN disputes :
        is_staff(user) \/ bookings[disputes[id].booking].user = user}

dispute_found(user, id) == id \in dispute_get_queryset(user)

DisputeNotFound(op, user, id) ==
    /\ ~dispute_found(user, id)
    /\ resp' = Response(op, user, id, HTTP_404_NOT_FOUND)
    /\ UNCHANGED <<bookings, hist, now, disputes, parking, inflight>>

\* Request bodies of POST /disputes/: booking is the pk the client names; a
\* status the client sends is no field of DisputeReportCreateSerializer.
DisputeCreateData ==
    [booking : BookingIds \cup {"missing"}, status : {"absent", "resolved"}]

\* the validation accepting only bookings that are active or completed
dispute_is_valid_ended_only(data) ==
    /\ data.booking \in DOMAIN bookings
    /\ bookings[data.booking].status \in {"active", "completed"}

\* PrimaryKeyRelatedField over BookingSession.objects.all(): the booking must
\* exist; neither its owner nor its status is looked at
dispute_is_valid(data) == data.booking \in DOMAIN bookings

\* id is the uuid4 default of the new row
dispute_create(user, id, data) ==
    /\ id \notin DOMAIN disputes
    /\ IF ~dispute_is_valid(data)
       THEN /\ resp' = Response("dispute_create", user, id, HTTP_400_BAD_REQUEST)
            /\ UNCHANGED <<disputes, parking, inflight>>
       ELSE /\ disputes' = disputes @@
                   (id :> [booking |-> data.booking, status |-> "pending",
                           resolution |-> None, resolved_at |-> NULL])
            /\ resp' = Response("dispute_create", user, id, HTTP_201_CREATED)
    /\ UNCHANGED <<bookings, hist, now, parking, inflight>>

\* resolve without the is_staff test
resolve_any_user(user, id, resolution) ==
    /\ IF ~dispute_found(user, id)
       THEN /\ resp' = Response("resolve", user, id, HTTP_404_NOT_FOUND)
            /\ UNCHANGED <<disputes, parking, inflight>>
       ELSE IF resolution \in {None, ""}
       THEN /\ resp' = Response("resolve", user, id, HTTP_400_BAD_REQUEST)
            /\ UNCHANGED <<disputes, parking, inflight>>
       ELSE /\ disputes' = [disputes EXCEPT ![id] =
                   [@ EXCEPT !.status = "resolved",
                             !.resolution = resolution,
                             !.resolved_at = now]]
            /\ resp' = Response("resolve", user, id, HTTP_200_OK)
    /\ UNCHANGED <<bookings, hist, now, parking, inflight>>

resolve(user, id, resolution) ==
    /\ IF ~is_staff(user)
       THEN /\ resp' = Response("resolve", user, id, HTTP_403_FORBIDDEN)
            /\ UNCHANGED <<disputes, parking, inflight>>
       ELSE IF ~dispute_found(user, id)
       THEN /\ resp' = Response("resolve", user, id, HTTP_404_NOT_FOUND)
            /\ UNCHANGED <<disputes, parking, inflight>>
       ELSE IF resolution \in {None, ""}
       THEN /\ resp' = Response("resolve", user, id, HTTP_400_BAD_REQUEST)
            /\ UNCHANGED <<disputes, parking, inflight>>
       ELSE /\ disputes' = [disputes EXCEPT ![id] =
                   [@ EXCEPT !.status = "resolved",
                             !.resolution = resolution,
                             !.resolved_at = now]]
            /\ resp' = Response("resolve", user, id, HTTP_200_OK)
    /\ UNCHANGED <<bookings, hist, now, parking, inflight>>

\* Request bodies of PUT and PATCH /disputes/<id>/ through DisputeReportSerializer:
\* fields = '__all__' with id, created_at and resolved_at read-only, so booking,
\* status and resolution are writable.
NoDisputeData == [booking |-> "absent", status |-> "absent", resolution |-> "absent"]
DisputeUpdateData ==
    {[NoDisputeData EXCEPT !.status = s] : s \in DISPUTE_STATUS_CHOICES \cup {"bogus"}}
    \cup {[NoDisputeData EXCEPT !.resolution = t] : t \in {None, "refund"}}
    \cup {[NoDisputeData EXCEPT !.booking = b] : b \in BookingIds \cup {"missing"}}
    \cup {[booking |-> b, status |-> "rejected", resolution |-> "absent"] : b \in BookingIds}

\* booking (like reason and description) is required unless the update is partial
dispute_update_is_valid(data, partial) ==
    /\ data.status \in DISPUTE_STATUS_CHOICES \cup {"absent"}
    /\ data.booking \in DOMAIN bookings \cup {"absent"}
    /\ partial \/ data.booking # "absent"

dispute_perform_update(dispute, data) ==
    [dispute EXCEPT
        !.booking    = IF data.booking = "absent" THEN @ ELSE data.booking,
        !.status     = IF data.status = "absent" THEN @ ELSE data.status,
        !.resolution = IF data.resolution = "absent" THEN @ ELSE data.resolution]

dispute_action_name(partial) ==
    IF partial THEN "dispute_partial_update" ELSE "dispute_update"

dispute_update(user, id, data, partial) ==
    \/ DisputeNotFound(dispute_action_name(partial), user, id)
    \/ /\ dispute_found(user, id)
       /\ IF ~dispute_update_is_valid(data, partial)
          THEN /\ resp' = Response(dispute_action_name(partial), user, id,
                                   HTTP_400_BAD_REQUEST)
               /\ UNCHANGED <<disputes, parking, inflight>>
          ELSE /\ disputes' = [disputes EXCEPT ![id] =
                                  dispute_perform_update(@, data)]
               /\ resp' = Response(dispute_action_name(partial), user, id,
                                   HTTP_200_OK)
       /\ UNCHANGED <<bookings, hist, now, parking, inflight>>

dispute_destroy(user, id) ==
    \/ DisputeNotFound("dispute_destroy", user, id)
    \/ /\ dispute_found(user, id)
       /\ disputes' = [d \in DOMAIN disputes \ {id} |-> disputes[d]]
       /\ resp' = Response("dispute_destroy", user, id, HTTP_204_NO_CONTENT)
       /\ UNCHANGED <<bookings, hist, now, parking, inflight>>

\* ------------------------------------------------------------------- clock
Tick ==
    /\ now < MaxTicks * TickMinutes
    /\ now' = now + TickMinutes
    /\ UNCHANGED <<bookings, hist, resp, disputes, parking, inflight>>

Init ==
    /\ bookings = <<>>
    /\ hist = <<>>
    /\ now = 0
    /\ resp = NoResponse
    /\ disputes = <<>>
    /\ spots = <<>>
    /\ facilities = <<>>
    /\ slots = <<>>
    /\ listings = <<>>
    /\ listing_slots = <<>>
    /\ inflight = [r \in Requests |-> IdleRequest]

Next ==
    \/ \E user \in Drivers, pk \in BookingIds, sched_end \in SchedEnds, cost \in Costs :
          create(user, pk, sched_end, cost)
    \/ \E user \in Users, pk \in BookingIds : start(user, pk)
    \/ \E user \in Users, pk \in BookingIds : end(user, pk)
    \/ \E user \in Users, pk \in BookingIds : cancel(user, pk)
    \/ \E user \in Users, pk \in BookingIds, data \in UpdateData, partial \in BOOLEAN :
          update(user, pk, data, partial)
    \/ \E user \in Users, pk \in BookingIds : destroy(user, pk)
    \/ Tick

Spec == Init /\ [][Next]_vars

\* The dispute API beside the booking API: a booking is made and brought to
\* each status, disputes are raised, edited, resolved and deleted.
StatusPatches == {[NoData EXCEPT !.status = s] : s \in STATUS_CHOICES}

NextDisputes ==
    \/ \E user \in Drivers, pk \in BookingIds, sched_end \in SchedEnds, cost \in Costs :
          create(user, pk, sched_end, cost)
    \/ \E user \in Users, pk \in BookingIds, data \in StatusPatches :
          update(user, pk, data, TRUE)
    \/ \E user \in Users, pk \in BookingIds : destroy(user, pk)
    \/ \E user \in Users, id \in DisputeIds, data \in DisputeCreateData :
          dispute_create(user, id, data)
    \/ \E user \in Users, id \in DisputeIds, resolution \in Resolutions :
          resolve(user, id, resolution)
    \/ \E user \in Users, id \in DisputeIds, data \in DisputeUpdateData,
          partial \in BOOLEAN :
          dispute_update(user, id, data, partial)
    \/ \E user \in Users, id \in DisputeIds : dispute_destroy(user, id)
    \/ Tick

SpecDisputes == Init /\ [][NextDisputes]_vars

\* Bookings made by every user, with whatever keys the client sends, and then
\* taken through the lifecycle.
NextCreate ==
    \/ \E user \in Users, pk \in BookingIds, data \in CreateData :
          perform_create(user, pk, data)
    \/ \E user \in Users, pk \in BookingIds : start(user, pk)
    \/ \E user \in Users, pk \in BookingIds : end(user, pk)
    \/ \E user \in Users, pk \in BookingIds : cancel(user, pk)
    \/ Tick

SpecCreate == Init /\ [][NextCreate]_vars

\* ======================================================== lifecycle claims
\* A step that answers one request of the named operation on a row the caller
\* can load.
Handled(op) ==
    /\ resp'.seq # resp.seq
    /\ resp'.op = op
    /\ resp'.status_code # HTTP_404_NOT_FOUND

Fields(booking) ==
    <<booking.status, booking.actual_start_time, booking.actual_end_time,
      booking.overstay_fee, booking.total_cost>>

\* C1: start succeeds exactly when the booking is confirmed at the call; a
\* successful start sets status active and actual_start_time to the call time
\* and nothing else, and from any other status start leaves the status alone.
C1_StartOnlyFromConfirmed ==
    [][Handled("start") =>
        LET before == bookings[resp'.pk]
            after  == bookings'[resp'.pk]
        IN /\ (resp'.status_code = HTTP_200_OK) <=> (before.status = "confirmed")
           /\ resp'.status_code = HTTP_200_OK =>
                 after = [before EXCEPT !.status = "active",
                                        !.actual_start_time = now]
           /\ before.status # "confirmed" => after.status = before.status
      ]_vars

C1_Witness ==
    /\ resp.op = "start"
    /\ resp.status_code = HTTP_200_OK
    /\ resp.pk \in DOMAIN bookings
    /\ bookings[resp.pk].status = "active"
    /\ bookings[resp.pk].actual_start_time = now

\* C2: end on an active booking always succeeds, leaving status completed and
\* actual_end_time at the call time, before and after scheduled_end_time.
C2_EndOnActiveSucceeds ==
    [][(Handled("end") /\ bookings[resp'.pk].status = "active") =>
        /\ resp'.status_code = HTTP_200_OK
        /\ bookings'[resp'.pk].status = "completed"
        /\ bookings'[resp'.pk].actual_end_time = now
      ]_vars

\* C3: an end later than scheduled_end_time stores overstay_fee =
\* floor(overstay minutes / 15) * 20 and raises total_cost by exactly that fee.
C3_OverstayFeeCharged ==
    [][(/\ Handled("end")
        /\ bookings[resp'.pk].status = "active"
        /\ now > bookings[resp'.pk].scheduled_end_time) =>
        LET before == bookings[resp'.pk]
            after  == bookings'[resp'.pk]
            blocks == (now - before.scheduled_end_time) \div 15
        IN /\ after.overstay_fee = blocks * 20
           /\ after.total_cost = before.total_cost + blocks * 20
      ]_vars

\* C4: cancel succeeds exactly when the status is neither completed nor
\* cancelled; a successful cancel sets status cancelled and leaves
\* actual_start_time, actual_end_time, overstay_fee and total_cost as they were.
C4_CancelUnlessTerminal ==
    [][Handled("cancel") =>
        LET before == bookings[resp'.pk]
            after  == bookings'[resp'.pk]
        IN /\ (resp'.status_code = HTTP_200_OK)
                 <=> (before.status \notin {"completed", "cancelled"})
           /\ resp'.status_code = HTTP_200_OK =>
                 after = [before EXCEPT !.status = "cancelled"]
      ]_vars

C4_Witness ==
    /\ resp.op = "cancel"
    /\ resp.status_code = HTTP_200_OK
    /\ resp.pk \in DOMAIN bookings
    /\ bookings[resp.pk].status = "cancelled"
    /\ bookings[resp.pk].actual_start_time # NULL

\* C5: start on a non-confirmed booking, end on a non-active booking and
\* cancel on a completed or cancelled booking answer with a client error and
\* leave every field of the booking unchanged.
Rejecting(op, status) ==
    \/ op = "start" /\ status # "confirmed"
    \/ op = "end" /\ status # "active"
    \/ op = "cancel" /\ status \in {"completed", "cancelled"}

C5_RejectedCallChangesNothing ==
    [][\A op \in {"start", "end", "cancel"} :
          (Handled(op) /\ Rejecting(op, bookings[resp'.pk].status)) =>
             /\ resp'.status_code = HTTP_400_BAD_REQUEST
             /\ Fields(bookings'[resp'.pk]) = Fields(bookings[resp'.pk])
             /\ bookings' = bookings
      ]_vars

C5_Witness ==
    /\ resp.op = "end"
    /\ resp.status_code = HTTP_400_BAD_REQUEST
    /\ resp.pk \in DOMAIN bookings
    /\ bookings[resp.pk].status = "confirmed"
    /\ bookings[resp.pk].actual_end_time = NULL

\* C6: of two cancel calls in a row on one booking that was not terminal, the
\* first succeeds and leaves it cancelled, the second is rejected and leaves
\* the booking as the first call left it.
C6_SecondCancelRejected ==
    [][Handled("cancel") =>
        /\ resp'.status_code = HTTP_200_OK =>
              bookings'[resp'.pk].status = "cancelled"
        /\ (resp.op = "cancel" /\ resp.pk = resp'.pk
              /\ resp.status_code = HTTP_200_OK) =>
              /\ resp'.status_code = HTTP_400_BAD_REQUEST
              /\ bookings' = bookings
      ]_vars

C6_Witness ==
    /\ resp.op = "cancel"
    /\ resp.status_code = HTTP_400_BAD_REQUEST
    /\ resp.pk \in DOMAIN bookings
    /\ bookings[resp.pk].status = "cancelled"
    /\ bookings[resp.pk].actual_end_time = NULL

\* C7: actual_start_time is non-null exactly on the bookings whose status is
\* active or was active earlier.
C7_StartTimeIffReachedActive ==
    \A pk \in DOMAIN bookings :
        (bookings[pk].actual_start_time # NULL)
            <=> (bookings[pk].status = "active" \/ hist[pk].reached_active)

\* C8: actual_end_time is non-null exactly on the bookings whose status is
\* completed.
C8_EndTimeIffCompleted ==
    \A pk \in DOMAIN bookings :
        (bookings[pk].actual_end_time # NULL) <=> (bookings[pk].status = "completed")

\* C9: the overstay fee is added to total_cost at most once: either
\* overstay_fee is null and total_cost is the cost agreed at creation, or
\* overstay_fee is set and total_cost is the agreed cost plus overstay_fee.
C9_TotalCostIsAgreedPlusFee ==
    \A pk \in DOMAIN bookings :
        IF bookings[pk].overstay_fee = NULL
        THEN bookings[pk].total_cost = hist[pk].agreed_cost
        ELSE bookings[pk].total_cost = hist[pk].agreed_cost + bookings[pk].overstay_fee

\* C10: once a booking exists, its status, actual_start_time, actual_end_time,
\* overstay_fee and total_cost change only in start, end, cancel and
\* dispute-raise; no other operation of the booking API changes them.
C10_OnlyNamedTransitionsMutate ==
    [][\A pk \in DOMAIN bookings \cap DOMAIN bookings' :
          Fields(bookings'[pk]) # Fields(bookings[pk]) =>
              resp'.op \in {"start", "end", "cancel", "dispute_create"}
      ]_vars

\* C11: no operation of the booking API removes a booking: a booking that
\* exists still exists after every operation.
C11_NoOperationRemovesBooking ==
    [][DOMAIN bookings \subseteq DOMAIN bookings']_vars

\* C13: completed and cancelled are terminal for start, end and cancel: a call
\* of any of them on a completed or cancelled booking leaves its status as it
\* was, so no sequence of such calls changes it.
C13_TerminalUnderLifecycleCalls ==
    [][\A op \in {"start", "end", "cancel"} :
          (Handled(op) /\ bookings[resp'.pk].status \in {"completed", "cancelled"}) =>
             /\ bookings'[resp'.pk].status = bookings[resp'.pk].status
             /\ resp'.status_code = HTTP_400_BAD_REQUEST
      ]_vars

C13_Witness ==
    /\ resp.op = "start"
    /\ resp.status_code = HTTP_400_BAD_REQUEST
    /\ resp.pk \in DOMAIN bookings
    /\ bookings[resp.pk].status = "cancelled"

\* C14 as claimed: none of start, end and cancel changes the status of a
\* disputed booking.
C14_DisputedHasNoWayOut ==
    [][\A op \in {"start", "end", "cancel"} :
          (Handled(op) /\ bookings[resp'.pk].status = "disputed") =>
             bookings'[resp'.pk].status = "disputed"
      ]_vars

\* C14 as amended: start and end are rejected on a disputed booking and leave
\* it disputed; cancel succeeds on a disputed booking and moves it to cancelled.
C14_DisputedLeftOnlyByCancel ==
    [][\A op \in {"start", "end", "cancel"} :
          (Handled(op) /\ bookings[resp'.pk].status = "disputed") =>
             IF op = "cancel"
             THEN /\ resp'.status_code = HTTP_200_OK
                  /\ bookings'[resp'.pk].status = "cancelled"
             ELSE /\ resp'.status_code = HTTP_400_BAD_REQUEST
                  /\ bookings'[resp'.pk] = bookings[resp'.pk]
      ]_vars

C14_Witness ==
    /\ resp.op = "end"
    /\ resp.status_code = HTTP_400_BAD_REQUEST
    /\ resp.pk \in DOMAIN bookings
    /\ bookings[resp.pk].status = "disputed"

\* C12: every booking the create operation produces starts in status
\* confirmed whatever the client sends, belongs to the requesting user, and has
\* actual_start_time, actual_end_time and overstay_fee null.
C12_CreatedConfirmedAndOwned ==
    [][\A user \in Users, pk \in BookingIds, data \in CreateData :
          perform_create(user, pk, data) =>
             /\ pk \notin DOMAIN bookings
             /\ resp'.status_code = HTTP_201_CREATED
             /\ bookings'[pk].status = "confirmed"
             /\ bookings'[pk].user = user
             /\ bookings'[pk].actual_start_time = NULL
             /\ bookings'[pk].actual_end_time = NULL
             /\ bookings'[pk].overstay_fee = NULL
      ]_vars

C12_Witness ==
    /\ resp.op = "create"
    /\ resp.status_code = HTTP_201_CREATED
    /\ resp.pk \in DOMAIN bookings
    /\ bookings[resp.pk].user = "other"
    /\ bookings[resp.pk].status = "confirmed"
    /\ bookings[resp.pk].actual_start_time = NULL

\* ========================================================== dispute claims
\* A step that answers one request of the named operation of the dispute API.
Answered(op) ==
    /\ resp'.seq # resp.seq
    /\ resp'.op = op

\* C15: creating a dispute that references a booking moves that booking to
\* status disputed.
C15_DisputeRaiseMarksBookingDisputed ==
    [][(Answered("dispute_create") /\ resp'.status_code = HTTP_201_CREATED) =>
          bookings'[disputes'[resp'.pk].booking].status = "disputed"
      ]_vars

\* C16: resolve on an existing dispute writes exactly when the caller is staff
\* and the resolution text is non-empty, and then sets status resolved, the
\* text and resolved_at = now; a non-staff caller gets 403, a missing or empty
\* text gets 400, and neither changes the dispute.
C16_ResolveOnlyByStaffWithText ==
    [][\A user \in Users, id \in DisputeIds, resolution \in Resolutions :
          (resolve(user, id, resolution) /\ id \in DOMAIN disputes) =>
             /\ (resp'.status_code = HTTP_200_OK)
                   <=> (is_staff(user) /\ resolution \notin {None, ""})
             /\ resp'.status_code = HTTP_200_OK =>
                   disputes'[id] = [disputes[id] EXCEPT !.status = "resolved",
                                                        !.resolution = resolution,
                                                        !.resolved_at = now]
             /\ ~is_staff(user) =>
                   /\ resp'.status_code = HTTP_403_FORBIDDEN
                   /\ disputes' = disputes
             /\ (is_staff(user) /\ resolution \in {None, ""}) =>
                   /\ resp'.status_code = HTTP_400_BAD_REQUEST
                   /\ disputes' = disputes
      ]_vars

C16_Witness ==
    /\ resp.op = "resolve"
    /\ resp.status_code = HTTP_200_OK
    /\ resp.pk \in DOMAIN disputes
    /\ disputes[resp.pk].status = "resolved"
    /\ disputes[resp.pk].resolution = "refund"
    /\ disputes[resp.pk].resolved_at = now

\* C17: a resolved or rejected dispute never moves to another status, and a
\* dispute is changed only by a successful resolve.
C17_ResolvedIsFinalAndStaffOnly ==
    [][\A id \in DOMAIN disputes \cap DOMAIN disputes' :
          /\ disputes[id].status \in {"resolved", "rejected"} =>
                disputes'[id].status = disputes[id].status
          /\ disputes'[id] # disputes[id] =>
                (resp'.op = "resolve" /\ resp'.status_code = HTTP_200_OK)
      ]_vars

\* C18: resolve alone changes a dispute's status, so every dispute is pending
\* or resolved and none is rejected or under_review.
C18_OnlyPendingOrResolved ==
    \A id \in DOMAIN disputes : disputes[id].status \in {"pending", "resolved"}

\* C19: resolution and resolved_at are null while a dispute is pending, and
\* once set they are not changed by any later operation, a second resolve
\* included.
C19_ResolutionSetOnce ==
    [][/\ \A id \in DOMAIN disputes' :
             disputes'[id].status = "pending" =>
                /\ disputes'[id].resolution = None
                /\ disputes'[id].resolved_at = NULL
       /\ \A id \in DOMAIN disputes \cap DOMAIN disputes' :
             /\ disputes[id].resolution # None =>
                   disputes'[id].resolution = disputes[id].resolution
             /\ disputes[id].resolved_at # NULL =>
                   disputes'[id].resolved_at = disputes[id].resolved_at
      ]_vars

\* C20 as claimed: a dispute is created pending and only against an existing
\* booking whose status is completed or active.
C20_DisputeOnlyOnActiveOrCompleted ==
    [][(Answered("dispute_create") /\ resp'.status_code = HTTP_201_CREATED) =>
          /\ disputes'[resp'.pk].status = "pending"
          /\ disputes'[resp'.pk].booking \in DOMAIN bookings
          /\ bookings[disputes'[resp'.pk].booking].status \in {"completed", "active"}
      ]_vars

\* C20 as amended: a dispute is created exactly when the booking it names
\* exists, whatever that booking's status, and it is created pending with no
\* resolution; naming no existing booking is a validation error.
C20_DisputeOnAnyExistingBooking ==
    [][\A user \in Users, id \in DisputeIds, data \in DisputeCreateData :
          dispute_create(user, id, data) =>
             /\ (resp'.status_code = HTTP_201_CREATED)
                   <=> (data.booking \in DOMAIN bookings)
             /\ resp'.status_code = HTTP_201_CREATED =>
                   disputes'[id] = [booking |-> data.booking, status |-> "pending",
                                    resolution |-> None, resolved_at |-> NULL]
             /\ resp'.status_code # HTTP_201_CREATED =>
                   /\ resp'.status_code = HTTP_400_BAD_REQUEST
                   /\ disputes' = disputes
      ]_vars

C20_Witness ==
    /\ resp.op = "dispute_create"
    /\ resp.status_code = HTTP_201_CREATED
    /\ resp.pk \in DOMAIN disputes
    /\ disputes[resp.pk].status = "pending"
    /\ bookings[disputes[resp.pk].booking].status = "cancelled"

\* ===================================================== concurrent requests
\* The lifecycle handlers when several workers serve requests at once.  A
\* handler reaches the database twice: get_object() reads the row into the
\* worker's own booking object, booking.save() writes every column of that
\* object back (Model.save() without update_fields).  Nothing between the two
\* calls holds a lock (no select_for_update, no transaction.atomic, no
\* filtered UPDATE), so the calls of different workers interleave freely.
LifecycleOps == {"start", "end", "cancel"}

Answer(r, local, code) ==
    inflight' = [inflight EXCEPT ![r] = [@ EXCEPT !.pc = "done",
                                                  !.local = local,
                                                  !.status_code = code]]

\* booking = self.get_object(), by a worker that is free
get_object(r, op, user, pk) ==
    /\ inflight[r].pc # "loaded"
    /\ IF found(user, pk)
       THEN inflight' = [inflight EXCEPT ![r] =
                [pc |-> "loaded", op |-> op, pk |-> pk,
                 local |-> [booking |-> bookings[pk]], status_code |-> 0]]
       ELSE inflight' = [inflight EXCEPT ![r] =
                [pc |-> "done", op |-> op, pk |-> pk,
                 local |-> <<>>, status_code |-> HTTP_404_NOT_FOUND]]
    /\ UNCHANGED <<bookings, hist, now, resp, disputes, parking>>

\* start whose save is UPDATE ... WHERE status = 'confirmed': it writes only
\* while the stored row is still confirmed
start_body_conditional(r) ==
    /\ inflight[r].pc = "loaded"
    /\ inflight[r].op = "start"
    /\ LET pk      == inflight[r].pk
           booking == inflight[r].local.booking
           started == [booking EXCEPT !.actual_start_time = now,
                                      !.status = "active"]
       IN IF booking.status # "confirmed" \/ bookings[pk].status # "confirmed"
          THEN /\ Answer(r, inflight[r].local, HTTP_400_BAD_REQUEST)
               /\ UNCHANGED <<bookings, hist>>
          ELSE /\ save(pk, started)
               /\ Answer(r, [booking |-> started], HTTP_200_OK)
    /\ UNCHANGED <<now, resp, disputes, parking>>

\* start after get_object: the guard on the loaded object, the changes, save
start_body(r) ==
    /\ inflight[r].pc = "loaded"
    /\ inflight[r].op = "start"
    /\ LET pk      == inflight[r].pk
           booking == inflight[r].local.booking
           started == [booking EXCEPT !.actual_start_time = now,
                                      !.status = "active"]
       IN IF booking.status # "confirmed"
          THEN /\ Answer(r, inflight[r].local, HTTP_400_BAD_REQUEST)
               /\ UNCHANGED <<bookings, hist>>
          ELSE /\ save(pk, started)
               /\ Answer(r, [booking |-> started], HTTP_200_OK)
    /\ UNCHANGED <<now, resp, disputes, parking>>

\* end after get_object
end_body(r) ==
    /\ inflight[r].pc = "loaded"
    /\ inflight[r].op = "end"
    /\ LET pk      == inflight[r].pk
           booking == inflight[r].local.booking
           ended   == [booking EXCEPT !.actual_end_time = now,
                                      !.status = "completed"]
           fee     == overstay_fee_of(
                          overstay_duration(ended.actual_end_time,
                                            booking.scheduled_end_time))
           total   == decimal_iadd(ended.total_cost, fee)
           charged == [ended EXCEPT !.overstay_fee = fee.val,
                                    !.total_cost = total.val]
       IN IF booking.status # "active"
          THEN /\ Answer(r, inflight[r].local, HTTP_400_BAD_REQUEST)
               /\ UNCHANGED <<bookings, hist>>
          ELSE IF ended.actual_end_time > booking.scheduled_end_time
          THEN IF total.raised
               THEN /\ Answer(r, inflight[r].local, HTTP_500_INTERNAL_SERVER_ERROR)
                    /\ UNCHANGED <<bookings, hist>>
               ELSE /\ save(pk, charged)
                    /\ Answer(r, [booking |-> charged], HTTP_200_OK)
          ELSE /\ save(pk, ended)
               /\ Answer(r, [booking |-> ended], HTTP_200_OK)
    /\ UNCHANGED <<now, resp, disputes, parking>>

\* cancel after get_object
cancel_body(r) ==
    /\ inflight[r].pc = "loaded"
    /\ inflight[r].op = "cancel"
    /\ LET pk        == inflight[r].pk
           booking   == inflight[r].local.booking
           cancelled == [booking EXCEPT !.status = "cancelled"]
       IN IF booking.status \in {"completed", "cancelled"}
          THEN /\ Answer(r, inflight[r].local, HTTP_400_BAD_REQUEST)
               /\ UNCHANGED <<bookings, hist>>
          ELSE /\ save(pk, cancelled)
               /\ Answer(r, [booking |-> cancelled], HTTP_200_OK)
    /\ UNCHANGED <<now, resp, disputes, parking>>

NextConcurrent ==
    \/ \E user \in Drivers, pk \in BookingIds, sched_end \in SchedEnds, cost \in Costs :
          create(user, pk, sched_end, cost)
    \/ \E r \in Requests, op \in LifecycleOps, user \in Users, pk \in BookingIds :
          get_object(r, op, user, pk)
    \/ \E r \in Requests : start_body(r)
    \/ \E r \in Requests : end_body(r)
    \/ \E r \in Requests : cancel_body(r)
    \/ Tick

SpecConcurrent == Init /\ [][NextConcurrent]_vars

\* ====================================================== concurrency claims
\* A step in which worker r finishes the named handler on the row it loaded.
Finishes(r, op) ==
    /\ inflight[r].pc = "loaded"
    /\ inflight[r].op = op
    /\ inflight'[r].pc = "done"

\* C21: start checks the status of the object it loaded and writes without a
\* lock or a conditional update: a start that loaded a confirmed booking
\* reports success and writes status active and its own actual_start_time
\* whatever the stored row has become meanwhile, so two concurrent starts both
\* succeed and the later write replaces the earlier one.
C21_StartWritesWhateverIsStored ==
    [][\A r \in Requests :
          (Finishes(r, "start") /\ inflight[r].local.booking.status = "confirmed")
          => /\ inflight'[r].status_code = HTTP_200_OK
             /\ bookings'[inflight[r].pk] =
                   [inflight[r].local.booking EXCEPT !.status = "active",
                                                     !.actual_start_time = now]
      ]_vars

\* both workers answered 200 to a start of the same booking; the stored
\* actual_start_time is the later writer's, the earlier one is gone
C21_Witness ==
    \E r \in Requests : \E q \in Requests \ {r} :
        /\ inflight[r].pc = "done" /\ inflight[q].pc = "done"
        /\ inflight[r].op = "start" /\ inflight[q].op = "start"
        /\ inflight[r].pk = inflight[q].pk
        /\ inflight[r].status_code = HTTP_200_OK
        /\ inflight[q].status_code = HTTP_200_OK
        /\ inflight[r].local.booking.actual_start_time
              < inflight[q].local.booking.actual_start_time
        /\ bookings[inflight[q].pk].actual_start_time
              = inflight[q].local.booking.actual_start_time

\* C30: whatever the interleaving of start, end and cancel on one booking, a
\* stored status of completed or cancelled never changes, and the
\* actual_start_time, actual_end_time, overstay_fee and total_cost stored by a
\* successful end are never overwritten by a request that read the row earlier.
C30_SuccessNeverUndone ==
    [][\A pk \in DOMAIN bookings :
          /\ bookings[pk].status \in {"completed", "cancelled"}
                => bookings'[pk].status = bookings[pk].status
          /\ bookings[pk].status = "completed"
                => /\ bookings'[pk].actual_start_time = bookings[pk].actual_start_time
                   /\ bookings'[pk].actual_end_time = bookings[pk].actual_end_time
                   /\ bookings'[pk].overstay_fee = bookings[pk].overstay_fee
                   /\ bookings'[pk].total_cost = bookings[pk].total_cost
      ]_vars

\* ======================================================= error-body claims
\* A step in which the named handler refuses a booking because of its status.
Refused(op) == Handled(op) /\ resp'.status_code = HTTP_400_BAD_REQUEST

\* the text says the word
Mentions(error, word) == \E i \in DOMAIN error : error[i] = word

\* the statuses a text names
Named(error) == {s \in STATUS_CHOICES : Mentions(error, s)}

\* C25: when start, end or cancel is rejected because the booking is in the
\* wrong status, the error returned reports the status the booking is in.
C25_ErrorReportsCurrentStatus ==
    [][\A op \in LifecycleOps :
          Refused(op) => Mentions(resp'.data.error, bookings[resp'.pk].status)
      ]_vars

\* C25 as amended: the refusal carries the operation's fixed text, which names
\* the status the operation requires (start: confirmed, end: active) or the
\* statuses it refuses (cancel: completed, cancelled); for start and end the
\* status the booking is in is never among them; nothing is changed.
C25_ErrorIsFixedTextOfOperation ==
    [][\A op \in LifecycleOps :
          Refused(op) =>
             LET before == bookings[resp'.pk]
                 named  == Named(resp'.data.error)
             IN /\ bookings' = bookings
                /\ DOMAIN resp'.data = {"error"}
                /\ op = "start" => named = {"confirmed"} /\ before.status \notin named
                /\ op = "end" => named = {"active"} /\ before.status \notin named
                /\ op = "cancel" => named = {"completed", "cancelled"}
      ]_vars

\* start refused on an active booking: the text names confirmed, not active
C25_Witness ==
    /\ resp.op = "start"
    /\ resp.status_code = HTTP_400_BAD_REQUEST
    /\ resp.pk \in DOMAIN bookings
    /\ bookings[resp.pk].status = "active"
    /\ Named(resp.data.error) = {"confirmed"}

\* ================================================= bookings of host's spots
\* BookingSessionViewSet.get_queryset with the host_spots query parameter, and
\* the handlers that read through it.  Booking rows carry spot_id here: the id
\* of a ParkingSpot, a CommercialParkingSlot or a PrivateParkingSlot.
Hosts == {"other"}                       \* users with is_host set
is_host(user) == user \in Hosts

HostBookingIds == {"b1", "b2"}
HostSpotsParams == {"absent", "true"}    \* ?host_spots=... of the request

owned_spot_ids(user) == {id \in DOMAIN spots : spots[id].owner = user}

owned_facility_slot_ids(user) ==
    {id \in DOMAIN slots :
        \E facility \in DOMAIN facilities :
            facilities[facility].owner = user /\ slots[id].facility = facility}

owned_listing_slot_ids(user) ==
    {id \in DOMAIN listing_slots :
        \E listing \in DOMAIN listings :
            listings[listing].owner = user /\ listing_slots[id].listing = listing}

all_owned_ids(user) ==
    owned_spot_ids(user) \cup owned_facility_slot_ids(user)
        \cup owned_listing_slot_ids(user)

\* get_queryset with host_spots replacing the owner filter instead of
\* narrowing it
get_queryset_host_spots_any_user(user, host_spots) ==
    IF host_spots = "true" /\ is_host(user)
    THEN {pk \in DOMAIN bookings : bookings[pk].spot_id \in all_owned_ids(user)}
    ELSE get_queryset(user)

\* the whole of get_queryset: the owner filter, then the host_spots filter on
\* what the owner filter left
get_queryset_host_spots(user, host_spots) ==
    LET queryset == get_queryset(user) IN
    IF host_spots = "true" /\ is_host(user)
    THEN {pk \in queryset : bookings[pk].spot_id \in all_owned_ids(user)}
    ELSE queryset

ListResponse(op, user, data) ==
    [Response(op, user, "none", HTTP_200_OK) EXCEPT !.data = data]

\* GET /bookings/: the pks of the rows returned
list(user, host_spots) ==
    /\ resp' = ListResponse("list", user, get_queryset_host_spots(user, host_spots))
    /\ UNCHANGED <<bookings, hist, now, disputes, parking, inflight>>

active(user, host_spots) ==
    /\ resp' = ListResponse("active", user,
                   {pk \in get_queryset_host_spots(user, host_spots) :
                       /\ bookings[pk].status = "active"
                       /\ bookings[pk].actual_end_time = NULL})
    /\ UNCHANGED <<bookings, hist, now, disputes, parking, inflight>>

history(user, host_spots) ==
    /\ resp' = ListResponse("history", user,
                   {pk \in get_queryset_host_spots(user, host_spots) :
                       bookings[pk].status \in {"completed", "cancelled"}})
    /\ UNCHANGED <<bookings, hist, now, disputes, parking, inflight>>

\* GET /bookings/<pk>/
retrieve(user, pk, host_spots) ==
    /\ IF pk \in get_queryset_host_spots(user, host_spots)
       THEN resp' = [Response("retrieve", user, pk, HTTP_200_OK) EXCEPT !.data = {pk}]
       ELSE resp' = Response("retrieve", user, pk, HTTP_404_NOT_FOUND)
    /\ UNCHANGED <<bookings, hist, now, disputes, parking, inflight>>

\* start, end and cancel of a request that carries query parameters:
\* get_object looks the pk up in get_queryset()
detail_route(op, user, pk, host_spots) ==
    IF pk \in get_queryset_host_spots(user, host_spots)
    THEN \/ op = "start" /\ start(user, pk)
         \/ op = "end" /\ end(user, pk)
         \/ op = "cancel" /\ cancel(user, pk)
    ELSE /\ resp' = Response(op, user, pk, HTTP_404_NOT_FOUND)
         /\ UNCHANGED <<bookings, hist, now, disputes, parking, inflight>>

\* A host ("other") owns spot s1, the facility of slot c1 and the listing of
\* slot p1; spot s2 is the driver's.  Two confirmed bookings: b1 by the driver
\* on any of these, b2 by the driver or the host on s1.
HostSpotRow(owner) ==
    [owner |-> owner,
     latitude  |-> <<"2", "8", ".", "6", "1", "3", "9", "0", "0", "0">>,
     longitude |-> <<"7", "7", ".", "2", "0", "9", "0", "0", "0", "0">>,
     is_occupied |-> FALSE, is_disabled |-> FALSE]

HostBookingRows(users, spot_ids) ==
    [user : users, spot_id : spot_ids,
     scheduled_end_time : SchedEnds, actual_start_time : {NULL},
     actual_end_time : {NULL}, total_cost : Costs, overstay_fee : {NULL},
     status : {"confirmed"}]

InitHost ==
    /\ \E b1 \in HostBookingRows({"driver"}, {"s1", "s2", "c1", "p1"}),
          b2 \in HostBookingRows({"driver", "other"}, {"s1"}) :
          bookings = ("b1" :> b1) @@ ("b2" :> b2)
    /\ hist = [pk \in HostBookingIds |->
                  [agreed_cost |-> bookings[pk].total_cost, reached_active |-> FALSE]]
    /\ now = 0
    /\ resp = NoResponse
    /\ disputes = <<>>
    /\ spots = ("s1" :> HostSpotRow("other")) @@ ("s2" :> HostSpotRow("driver"))
    /\ facilities = ("f1" :> [owner |-> "other"])
    /\ slots = ("c1" :> [facility |-> "f1", floor |-> 1,
                         slot_number |-> <<"F", "1", "-", "1">>])
    /\ listings = ("l1" :> [owner |-> "other"])
    /\ listing_slots = ("p1" :> [listing |-> "l1", slot_number |-> 1])
    /\ inflight = [r \in Requests |-> IdleRequest]

NextHost ==
    \/ \E user \in Users, host_spots \in HostSpotsParams : list(user, host_spots)
    \/ \E user \in Users, host_spots \in HostSpotsParams : active(user, host_spots)
    \/ \E user \in Users, host_spots \in HostSpotsParams : history(user, host_spots)
    \/ \E user \in Users, pk \in HostBookingIds, host_spots \in HostSpotsParams :
          retrieve(user, pk, host_spots)
    \/ \E op \in LifecycleOps, user \in Users, pk \in HostBookingIds,
          host_spots \in HostSpotsParams :
          detail_route(op, user, pk, host_spots)

SpecHost == InitHost /\ [][NextHost]_vars

\* ======================================================== visibility claims
Own(user) == {pk \in DOMAIN bookings : bookings[pk].user = user}

C28_HostGetsBookingsOfOwnSpots ==
    [][\A user \in {u \in Hosts : ~is_staff(u)} :
          (resp'.op = "list" /\ list(user, "true"))
             => \A pk \in DOMAIN bookings :
                   bookings[pk].spot_id \in all_owned_ids(user) => pk \in resp'.data
      ]_vars

\* ================================================================ distance
\* Python floats, kept as decimal floating-point numbers m * 10^e with a
\* mantissa of MANTISSA_DIGITS digits (1e7 <= |m| < 1e8, or m = 0); results
\* are cut to the mantissa after every operation, as a float rounds after
\* every operation.
MANTISSA_DIGITS == 8
MANTISSA_MIN == 10000000
MANTISSA_MAX == 100000000
LIMB == 10000                            \* half a mantissa

Zero == [m |-> 0, e |-> 0]

Abs(n) == IF n < 0 THEN -n ELSE n
Sign(n) == IF n < 0 THEN -1 ELSE 1

RECURSIVE Pow10(_)
Pow10(k) == IF k = 0 THEN 1 ELSE 10 * Pow10(k - 1)

RECURSIVE NormPos(_, _)
NormPos(m, e) ==
    IF m = 0 THEN Zero
    ELSE IF m >= MANTISSA_MAX THEN NormPos(m \div 10, e + 1)
    ELSE IF m < MANTISSA_MIN THEN NormPos(m * 10, e - 1)
    ELSE [m |-> m, e |-> e]

Norm(m, e) ==
    LET n == NormPos(Abs(m), e) IN [m |-> Sign(m) * n.m, e |-> n.e]

\* the digits of m that are left after moving the point k places
Shift(m, k) == IF k > MANTISSA_DIGITS THEN 0 ELSE Sign(m) * (Abs(m) \div Pow10(k))

fadd(x, y) ==
    IF x.m = 0 THEN y
    ELSE IF y.m = 0 THEN x
    ELSE LET e == IF x.e > y.e THEN x.e ELSE y.e
         IN Norm(Shift(x.m, e - x.e) + Shift(y.m, e - y.e), e)

fneg(x) == [m |-> -x.m, e |-> x.e]

fsub(x, y) == fadd(x, fneg(y))

\* the product of the mantissas, limb by limb, cut to the leading digits
fmul(x, y) ==
    IF x.m = 0 \/ y.m = 0 THEN Zero
    ELSE LET a     == Abs(x.m)
             b     == Abs(y.m)
             ah    == a \div LIMB
             al    == a % LIMB
             bh    == b \div LIMB
             bl    == b % LIMB
             cross == ah * bl + al * bh
             low   == (cross % LIMB) * LIMB + al * bl
             hi    == ah * bh + cross \div LIMB + low \div MANTISSA_MAX
             lo    == low % MANTISSA_MAX
             s     == Sign(x.m) * Sign(y.m)
             e     == x.e + y.e + MANTISSA_DIGITS
         IN IF hi < MANTISSA_MIN
            THEN [m |-> s * (hi * 10 + lo \div MANTISSA_MIN), e |-> e - 1]
            ELSE [m |-> s * hi, e |-> e]

\* long division of the mantissas, one digit of the quotient at a time
RECURSIVE DivDigits(_, _, _, _)
DivDigits(q, r, b, n) ==
    IF n = 0 THEN q
    ELSE DivDigits(q * 10 + (r * 10) \div b, (r * 10) % b, b, n - 1)

fdiv(x, y) ==
    IF x.m = 0 THEN Zero
    ELSE LET a == Abs(x.m)
             b == Abs(y.m)
             q == DivDigits(a \div b, a % b, b, MANTISSA_DIGITS)
             n == NormPos(q, x.e - y.e - MANTISSA_DIGITS)
         IN [m |-> Sign(x.m) * Sign(y.m) * n.m, e |-> n.e]

\* float(n) of an int
fint(n) == Norm(n, 0)

fle(x, y) == fsub(y, x).m >= 0

Half == [m |-> 50000000, e |-> -8]

\* math.sqrt: Newton's iteration from a start within a factor 3 of the root
SQRT_STEPS == 8

RECURSIVE Newton(_, _, _)
Newton(x, y, n) ==
    IF n = 0 THEN y
    ELSE Newton(x, fmul(fadd(y, fdiv(x, y)), Half), n - 1)

sqrt(x) ==
    IF x.m = 0 THEN Zero
    ELSE LET E == x.e + MANTISSA_DIGITS - 1
         IN IF E % 2 = 0
            THEN Newton(x, [m |-> 20000000, e |-> E \div 2 - 7], SQRT_STEPS)
            ELSE Newton(x, [m |-> 60000000, e |-> (E - 1) \div 2 - 7], SQRT_STEPS)

\* math.sin, math.cos, math.asin: their power series, summed term by term
SERIES_TERMS == 12
ASIN_TERMS == 20

RECURSIVE SinSeries(_, _, _, _)
SinSeries(x2, term, sum, k) ==
    IF k > SERIES_TERMS \/ term.m = 0 THEN sum
    ELSE LET next == fneg(fdiv(fmul(term, x2), fint((2 * k) * (2 * k + 1))))
         IN SinSeries(x2, next, fadd(sum, next), k + 1)

sin(x) == SinSeries(fmul(x, x), x, x, 1)

RECURSIVE CosSeries(_, _, _, _)
CosSeries(x2, term, sum, k) ==
    IF k > SERIES_TERMS \/ term.m = 0 THEN sum
    ELSE LET next == fneg(fdiv(fmul(term, x2), fint((2 * k - 1) * (2 * k))))
         IN CosSeries(x2, next, fadd(sum, next), k + 1)

cos(x) == CosSeries(fmul(x, x), fint(1), fint(1), 1)

RECURSIVE AsinSeries(_, _, _, _)
AsinSeries(x2, term, sum, k) ==
    IF k > ASIN_TERMS \/ term.m = 0 THEN sum
    ELSE LET next == fdiv(fmul(fmul(term, x2), fint((2 * k - 1) * (2 * k - 1))),
                          fint((2 * k) * (2 * k + 1)))
         IN AsinSeries(x2, next, fadd(sum, next), k + 1)

asin(x) == AsinSeries(fmul(x, x), x, x, 1)

\* x ** 2
square(x) == fmul(x, x)

\* math.radians: x * (pi / 180)
radians(x) == fmul(x, [m |-> 17453293, e |-> -9])

\* float(s) of a str or of a Decimal (by way of its digits): sign, digits, at
\* most one point.  Anything else raises ValueError.
DigitValue ==
    ("0" :> 0) @@ ("1" :> 1) @@ ("2" :> 2) @@ ("3" :> 3) @@ ("4" :> 4) @@
    ("5" :> 5) @@ ("6" :> 6) @@ ("7" :> 7) @@ ("8" :> 8) @@ ("9" :> 9)

RECURSIVE Number(_, _)
Number(digits, acc) ==
    IF digits = <<>> THEN acc
    ELSE Number(Tail(digits), acc * 10 + DigitValue[Head(digits)])

NotPoint(c) == c # "."

float(text) ==
    LET negative == text # <<>> /\ Head(text) = "-"
        body     == IF negative THEN Tail(text) ELSE text
        points   == {i \in DOMAIN body : body[i] = "."}
        digits   == SelectSeq(body, NotPoint)
        places   == IF points = {} THEN 0
                    ELSE Len(body) - (CHOOSE i \in points : TRUE)
    IN IF /\ Cardinality(points) <= 1
          /\ digits # <<>>
          /\ \A i \in DOMAIN digits : digits[i] \in DOMAIN DigitValue
       THEN [raised |-> FALSE,
             val |-> Norm((IF negative THEN -1 ELSE 1) * Number(digits, 0), -places)]
       ELSE [raised |-> TRUE, val |-> Zero]

\* calculate_distance returning km * 100 instead of km * 1000
calculate_distance_wrong_unit(lat1, lon1, lat2, lon2) ==
    LET f == [i \in 1..4 |-> float(<<lat1, lon1, lat2, lon2>>[i])]
    IN IF \E i \in 1..4 : f[i].raised
       THEN [raised |-> TRUE, val |-> Zero]
       ELSE LET rlat1 == radians(f[1].val)
                rlon1 == radians(f[2].val)
                rlat2 == radians(f[3].val)
                rlon2 == radians(f[4].val)
                dlon  == fsub(rlon2, rlon1)
                dlat  == fsub(rlat2, rlat1)
                a     == fadd(square(sin(fdiv(dlat, fint(2)))),
                              fmul(fmul(cos(rlat1), cos(rlat2)),
                                   square(sin(fdiv(dlon, fint(2))))))
                c     == fmul(fint(2), asin(sqrt(a)))
                km    == fmul(fint(6371), c)
            IN [raised |-> FALSE, val |-> fmul(km, fint(100))]

\* calculate_distance(lat1, lon1, lat2, lon2): meters, or ValueError out of
\* float() for an argument that is no number
calculate_distance(lat1, lon1, lat2, lon2) ==
    LET f == [i \in 1..4 |-> float(<<lat1, lon1, lat2, lon2>>[i])]
    IN IF \E i \in 1..4 : f[i].raised
       THEN [raised |-> TRUE, val |-> Zero]
       ELSE LET rlat1 == radians(f[1].val)
                rlon1 == radians(f[2].val)
                rlat2 == radians(f[3].val)
                rlon2 == radians(f[4].val)
                dlon  == fsub(rlon2, rlon1)
                dlat  == fsub(rlat2, rlat1)
                a     == fadd(square(sin(fdiv(dlat, fint(2)))),
                              fmul(fmul(cos(rlat1), cos(rlat2)),
                                   square(sin(fdiv(dlon, fint(2))))))
                c     == fmul(fint(2), asin(sqrt(a)))
                km    == fmul(fint(6371), c)
            IN [raised |-> FALSE, val |-> fmul(km, fint(1000))]

\* ========================================================= proximity search
\* ParkingSpotViewSet: list and nearby over the parking_spots table.  Query
\* parameters and DecimalField values are texts, kept character by character.
NoParam == <<"None">>                    \* query_params.get() of a missing key

\* a DecimalField(decimal_places=7) reads back with seven decimals
SpotLatitudes ==
    {<<"2", "8", ".", "6", "1", "3", "9", "0", "0", "0">>,
     <<"2", "8", ".", "5", "2", "8", "5", "0", "0", "0">>,
     <<"2", "8", ".", "5", "4", "9", "4", "0", "0", "0">>}
SpotLongitudes ==
    {<<"7", "7", ".", "2", "0", "9", "0", "0", "0", "0">>,
     <<"7", "7", ".", "2", "1", "8", "2", "0", "0", "0">>,
     <<"7", "7", ".", "2", "3", "4", "4", "0", "0", "0">>}
Positions ==
    {[latitude |-> <<"2", "8", ".", "6", "1", "3", "9", "0", "0", "0">>,
      longitude |-> <<"7", "7", ".", "2", "0", "9", "0", "0", "0", "0">>],
     [latitude |-> <<"2", "8", ".", "5", "2", "8", "5", "0", "0", "0">>,
      longitude |-> <<"7", "7", ".", "2", "1", "8", "2", "0", "0", "0">>],
     [latitude |-> <<"2", "8", ".", "5", "4", "9", "4", "0", "0", "0">>,
      longitude |-> <<"7", "7", ".", "2", "3", "4", "4", "0", "0", "0">>]}

NotANumber == <<"a", "b", "c">>
TrueText == <<"t", "r", "u", "e">>

\* what clients send as ?lat=, ?lon=, ?radius=, ?available_only=
QueryLats == {NoParam, <<>>, NotANumber, <<"2", "8", ".", "6", "1", "3", "9">>, <<"2", "8", ".", "5", "2", "8", "5">>}
QueryLons == {NoParam, NotANumber, <<"7", "7", ".", "2", "0", "9", "0">>, <<"7", "7", ".", "2", "1", "8", "2">>}
QueryRadii == {NoParam, NotANumber, <<"5", "0", "0", "0">>, <<"1", "0", "0", "0", "0">>}
ProximityParams ==
    [lat : QueryLats, lon : QueryLons, radius : QueryRadii,
     available_only : {NoParam, TrueText}]

\* bool(text) of a query parameter: None and '' are false
truthy(text) == text # NoParam /\ text # <<>>

\* The value of calculate_distance at every argument list the requests and
\* rows above can hand it, evaluated once.
DistanceArgs ==
    {<<lat, lon, p.latitude, p.longitude>> :
        lat \in (QueryLats \ {NoParam, <<>>}), lon \in (QueryLons \ {NoParam}),
        p \in Positions}
    \cup {<<p.latitude, p.longitude, q.latitude, q.longitude>> :
             p \in Positions, q \in Positions}

Distances ==
    [args \in DistanceArgs |-> calculate_distance(args[1], args[2], args[3], args[4])]

distance_of(lat1, lon1, lat2, lon2) == Distances[<<lat1, lon1, lat2, lon2>>]

SpotIds == {"s1", "s2"}
SpotOrder == <<"s1", "s2">>              \* the order the table returns its rows in

InTable(pk) == pk \in DOMAIN spots
IsAvailable(pk) == ~spots[pk].is_occupied /\ ~spots[pk].is_disabled
IsAvailableRow(row) == IsAvailable(row.pk)

\* list.sort(key=lambda x: x.distance): stable, ascending
RECURSIVE Insert(_, _)
Insert(sorted, row) ==
    IF sorted = <<>> THEN <<row>>
    ELSE IF fle(Head(sorted).distance, row.distance)
    THEN <<Head(sorted)>> \o Insert(Tail(sorted), row)
    ELSE <<row>> \o sorted

RECURSIVE sort(_)
sort(rows) ==
    IF rows = <<>> THEN <<>>
    ELSE Insert(sort(SubSeq(rows, 1, Len(rows) - 1)), rows[Len(rows)])

\* ParkingSpotViewSet.get_queryset (requests carry no max_price): a QuerySet,
\* or, once lat and lon are both given, a Python list sorted by distance; the
\* ValueError of calculate_distance leaves it as raised.
spot_get_queryset(params) ==
    LET all      == SelectSeq(SpotOrder, InTable)
        queryset == IF params.available_only = TrueText
                    THEN SelectSeq(all, IsAvailable) ELSE all
        measured == [i \in DOMAIN queryset |->
                        distance_of(params.lat, params.lon,
                                    spots[queryset[i]].latitude,
                                    spots[queryset[i]].longitude)]
    IN IF truthy(params.lat) /\ truthy(params.lon)
       THEN IF \E i \in DOMAIN queryset : measured[i].raised
            THEN [raised |-> TRUE, type |-> "list", rows |-> <<>>]
            ELSE [raised |-> FALSE, type |-> "list",
                  rows |-> sort([i \in DOMAIN queryset |->
                                   [pk |-> queryset[i], distance |-> measured[i].val]])]
       ELSE [raised |-> FALSE, type |-> "QuerySet",
             rows |-> [i \in DOMAIN queryset |-> [pk |-> queryset[i], distance |-> Zero]]]

SpotResponse(op, user, code, data) ==
    [Response(op, user, "none", code) EXCEPT !.data = data]

\* GET /parking-spots/: get_queryset, the filter backends, the serializer.
\* DjangoFilterBackend builds its FilterSet from queryset.model: handed the
\* list, a django-filter that reads filterset_fields fails with
\* AttributeError, one that does not passes the list on.  The installed
\* version is not part of the repository, so both outcomes are kept.
spot_list(user, params) ==
    /\ \E queryset \in {spot_get_queryset(params)} :
          IF queryset.raised
          THEN resp' = SpotResponse("list", user, HTTP_500_INTERNAL_SERVER_ERROR, <<>>)
          ELSE IF queryset.type = "list"
          THEN \/ resp' = SpotResponse("list", user, HTTP_200_OK, queryset.rows)
               \/ resp' = SpotResponse("list", user, HTTP_500_INTERNAL_SERVER_ERROR, <<>>)
          ELSE resp' = SpotResponse("list", user, HTTP_200_OK, queryset.rows)
    /\ UNCHANGED <<bookings, hist, now, disputes, parking, inflight>>

\* the rows of nearby's loop: each spot of the filtered queryset with its
\* distance, kept when the distance is within the radius
nearby_spots(params, spots_, radius) ==
    LET measured == [i \in DOMAIN spots_ |->
                        distance_of(params.lat, params.lon,
                                    spots[spots_[i].pk].latitude,
                                    spots[spots_[i].pk].longitude)]
        InRadius(row) == ~row.distance.raised /\ fle(row.distance.val, radius)
        Measured(row) == [pk |-> row.pk, distance |-> row.distance.val]
        within == SelectSeq([i \in DOMAIN spots_ |->
                                [pk |-> spots_[i].pk, distance |-> measured[i]]],
                            InRadius)
    IN [raised |-> \E i \in DOMAIN spots_ : measured[i].raised,
        rows |-> [i \in DOMAIN within |-> Measured(within[i])]]

\* GET /parking-spots/nearby/
nearby(user, params) ==
    /\ \E radius \in {IF params.radius = NoParam
                       THEN [raised |-> FALSE, val |-> fint(5000)]
                       ELSE float(params.radius)} :
          IF radius.raised
          THEN \* ValueError out of float(radius)
               resp' = SpotResponse("nearby", user, HTTP_500_INTERNAL_SERVER_ERROR, <<>>)
          ELSE IF ~truthy(params.lat) \/ ~truthy(params.lon)
          THEN resp' = SpotResponse("nearby", user, HTTP_400_BAD_REQUEST, <<>>)
          ELSE \E queryset \in {spot_get_queryset(params)} :
                 IF queryset.raised
                 THEN \* ValueError out of calculate_distance, inside get_queryset
                      resp' = SpotResponse("nearby", user,
                                           HTTP_500_INTERNAL_SERVER_ERROR, <<>>)
                 ELSE IF queryset.type = "list"
                 THEN \* .filter() of a list: AttributeError
                      resp' = SpotResponse("nearby", user,
                                           HTTP_500_INTERNAL_SERVER_ERROR, <<>>)
                 ELSE \E near \in {nearby_spots(params,
                                                  SelectSeq(queryset.rows, IsAvailableRow),
                                                  radius.val)} :
                        IF near.raised
                        THEN resp' = SpotResponse("nearby", user,
                                                  HTTP_500_INTERNAL_SERVER_ERROR, <<>>)
                        ELSE resp' = SpotResponse("nearby", user, HTTP_200_OK,
                                                  sort(near.rows))
    /\ UNCHANGED <<bookings, hist, now, disputes, parking, inflight>>

\* POST /parking-spots/<pk>/toggle_occupancy/
toggle_occupancy(user, pk) ==
    /\ IF pk \in DOMAIN spots
       THEN /\ spots' = [spots EXCEPT ![pk].is_occupied = ~@]
            /\ resp' = Response("toggle_occupancy", user, pk, HTTP_200_OK)
       ELSE /\ resp' = Response("toggle_occupancy", user, pk, HTTP_404_NOT_FOUND)
            /\ UNCHANGED spots
    /\ UNCHANGED <<bookings, hist, now, disputes, facilities, slots, listings,
                   listing_slots, inflight>>

\* POST /parking-spots/: pk is the fresh uuid4 of the new row
SpotCreateData ==
    [latitude : SpotLatitudes, longitude : SpotLongitudes, is_disabled : BOOLEAN]

spot_perform_create(user, pk, data) ==
    /\ pk \notin DOMAIN spots
    /\ [latitude |-> data.latitude, longitude |-> data.longitude] \in Positions
    /\ spots' = spots @@ (pk :> [owner |-> user,
                                 latitude |-> data.latitude,
                                 longitude |-> data.longitude,
                                 is_occupied |-> FALSE,
                                 is_disabled |-> data.is_disabled])
    /\ resp' = Response("create", user, pk, HTTP_201_CREATED)
    /\ UNCHANGED <<bookings, hist, now, disputes, facilities, slots, listings,
                   listing_slots, inflight>>

NextProximity ==
    \/ \E user \in Hosts, pk \in SpotIds, data \in SpotCreateData :
          spot_perform_create(user, pk, data)
    \/ \E user \in Hosts, pk \in SpotIds : toggle_occupancy(user, pk)
    \/ \E user \in Drivers, params \in ProximityParams : spot_list(user, params)
    \/ \E user \in Drivers, params \in ProximityParams : nearby(user, params)

SpecProximity == Init /\ [][NextProximity]_vars

\* ---------------------------------------------------------------- claims
\* a query parameter that is present and that float() accepts
Parseable(text) == truthy(text) /\ ~float(text).raised

Available == {pk \in DOMAIN spots : IsAvailable(pk)}
Candidates(params) ==
    IF params.available_only = TrueText THEN Available ELSE DOMAIN spots
DistanceTo(params, pk) ==
    distance_of(params.lat, params.lon, spots[pk].latitude, spots[pk].longitude).val
Radius(params) ==
    IF params.radius = NoParam THEN fint(5000) ELSE float(params.radius).val
WithinRadius(params) ==
    {pk \in Available : fle(DistanceTo(params, pk), Radius(params))}

Pks(data) == {data[i].pk : i \in DOMAIN data}
Ordered(data) ==
    \A i \in DOMAIN data, j \in DOMAIN data :
        i < j => fle(data[i].distance, data[j].distance)
ExactlyOnce(data) ==
    \A i \in DOMAIN data, j \in DOMAIN data : data[i].pk = data[j].pk => i = j

QueryPoints == {p \in ProximityParams : Parseable(p.lat) /\ Parseable(p.lon)}

\* C22: a proximity request with a query point gets a result ordered
\* non-decreasing by distance to that point: nearby (radius given, or 5000 m)
\* returns exactly the available spots whose distance is <= radius, each
\* once; list with lat and lon returns every candidate exactly once.
C22_ProximityResultOrderedAndExact ==
    [][\A user \in Drivers :
          /\ \A params \in {p \in QueryPoints :
                                p.radius = NoParam \/ Parseable(p.radius)} :
                (resp'.op = "nearby" /\ nearby(user, params))
                   => /\ resp'.status_code = HTTP_200_OK
                      /\ Ordered(resp'.data)
                      /\ ExactlyOnce(resp'.data)
                      /\ Pks(resp'.data) = WithinRadius(params)
          /\ \A params \in QueryPoints :
                (resp'.op = "list" /\ resp'.status_code = HTTP_200_OK
                    /\ spot_list(user, params))
                   => /\ Ordered(resp'.data)
                      /\ ExactlyOnce(resp'.data)
                      /\ Pks(resp'.data) = Candidates(params)
      ]_vars

\* C23: nearby with lat, lon and radius answers 200 with the spots that are
\* neither occupied nor disabled and lie within the radius.
C23_NearbyWithRadiusSucceeds ==
    [][\A user \in Drivers, params \in {p \in QueryPoints : Parseable(p.radius)} :
          (resp'.op = "nearby" /\ nearby(user, params))
             => /\ resp'.status_code = HTTP_200_OK
                /\ Pks(resp'.data) = WithinRadius(params)
      ]_vars

\* C24: a proximity request whose lat or lon is missing or is no number is
\* answered with a validation error (400), and no parking spot changes.
C24_BadCoordinatesAreValidationErrors ==
    [][\A user \in Drivers :
          /\ \A params \in {p \in ProximityParams \ QueryPoints :
                                p.radius = NoParam \/ Parseable(p.radius)} :
                (resp'.op = "nearby" /\ nearby(user, params))
                   => /\ resp'.status_code = HTTP_400_BAD_REQUEST
                      /\ spots' = spots
          /\ \A params \in {p \in ProximityParams \ QueryPoints :
                                truthy(p.lat) /\ truthy(p.lon)} :
                (resp'.op = "list" /\ spot_list(user, params))
                   => /\ resp'.status_code = HTTP_400_BAD_REQUEST
                      /\ spots' = spots
      ]_vars

\* the distance between two rows of the parking_spots table
Between(p, q) ==
    distance_of(spots[p].latitude, spots[p].longitude,
                spots[q].latitude, spots[q].longitude)
At(pk, latitude, longitude) ==
    /\ float(spots[pk].latitude).val = float(latitude).val
    /\ float(spots[pk].longitude).val = float(longitude).val
AtDelhi(pk) == At(pk, <<"2", "8", ".", "6", "1", "3", "9">>,
                      <<"7", "7", ".", "2", "0", "9", "0">>)
AtSaket(pk) == At(pk, <<"2", "8", ".", "5", "2", "8", "5">>,
                      <<"7", "7", ".", "2", "1", "8", "2">>)
InMeters(d, low, high) == fle(fint(low), d) /\ fle(d, fint(high))

HaversineLaws ==
    \A p \in DOMAIN spots, q \in DOMAIN spots :
        /\ ~Between(p, q).raised
        /\ Between(p, p).val = Zero
        /\ Between(p, q).val = Between(q, p).val

FacilityIds == {"f1", "f2"}
SlotIdOrder == <<"c1", "c2", "c3">>      \* the uuid4 ids new slots take, in turn

DecimalDigits == <<"0", "1", "2", "3", "4", "5", "6", "7", "8", "9">>

\* str(n) of an int, as the f-string formats it
RECURSIVE str(_)
str(n) ==
    IF n < 0 THEN <<"-">> \o str(-n)
    ELSE IF n < 10 THEN <<DecimalDigits[n + 1]>>
    ELSE str(n \div 10) \o <<DecimalDigits[(n % 10) + 1]>>

\* int(x) of a request value: an optional sign and digits, else ValueError
int(text) ==
    LET negative == text # <<>> /\ Head(text) = "-"
        digits   == IF negative THEN Tail(text) ELSE text
    IN IF digits # <<>> /\ \A i \in DOMAIN digits : digits[i] \in DOMAIN DigitValue
       THEN [raised |-> FALSE,
             val |-> (IF negative THEN -1 ELSE 1) * Number(digits, 0)]
       ELSE [raised |-> TRUE, val |-> 0]

\* f"F{floor}-{n}"
slot_number(floor, n) == <<"F">> \o str(floor) \o <<"-">> \o str(n)

CountInputs == {<<"0">>, <<"1">>, <<"2">>, NotANumber}
FloorInputs == {<<"1">>}
CreateSlotsData == [count : CountInputs, floor : FloorInputs]

\* what clients send to the slot API
SlotData ==
    [facility : {"f1"}, floor : {1, 2},
     slot_number : {<<"F", "1", "-", "1">>, <<"A", "0", "1">>}]

IsFreeSlotId(id) == id \notin DOMAIN slots
FreeSlotIds == SelectSeq(SlotIdOrder, IsFreeSlotId)

\* rows the create_slots calls under way are still to insert
RECURSIVE Reserved(_)
Reserved(workers) ==
    IF workers = {} THEN 0
    ELSE LET r == CHOOSE w \in workers : TRUE
         IN (IF inflight[r].pc = "counted" THEN inflight[r].local.count ELSE 0)
               + Reserved(workers \ {r})

\* unique_together = ['facility', 'slot_number'], over all rows but pk
slot_number_taken(facility, number, pk) ==
    \E id \in DOMAIN slots \ {pk} :
        slots[id].facility = facility /\ slots[id].slot_number = number

Finish(r, op, pk, code) ==
    inflight' = [inflight EXCEPT ![r] =
                    [pc |-> "done", op |-> op, pk |-> pk, local |-> <<>>,
                     status_code |-> code]]

\* create_slots up to existing_count = facility.slots.filter(floor=floor).count()
create_slots_count(r, user, pk, data) ==
    /\ inflight[r].pc \notin {"loaded", "counted"}
    /\ LET count == int(data.count)
           floor == int(data.floor)
       IN IF pk \notin DOMAIN facilities
          THEN Finish(r, "create_slots", pk, HTTP_404_NOT_FOUND)
          ELSE IF count.raised \/ floor.raised
          THEN Finish(r, "create_slots", pk, HTTP_400_BAD_REQUEST)
          ELSE /\ Cardinality(DOMAIN slots) + Reserved(Requests) + count.val
                     <= Len(SlotIdOrder)
               /\ inflight' = [inflight EXCEPT ![r] =
                     [pc |-> "counted", op |-> "create_slots", pk |-> pk,
                      local |-> [count |-> count.val, floor |-> floor.val,
                                 existing_count |->
                                    Cardinality({id \in DOMAIN slots :
                                        /\ slots[id].facility = pk
                                        /\ slots[id].floor = floor.val})],
                      status_code |-> 0]]
    /\ UNCHANGED <<bookings, hist, now, resp, disputes, parking>>

\* the slot numbers of the loop: F<floor>-<existing_count + i + 1>
create_slots_numbers(pk, floor, count, existing_count) ==
    [i \in 1..count |-> slot_number(floor, existing_count + (i - 1) + 1)]

\* create_slots from the loop to the response: bulk_create is one INSERT,
\* which the unique constraint fails as a whole (IntegrityError, uncaught)
create_slots_bulk_create(r) ==
    /\ inflight[r].pc = "counted"
    /\ inflight[r].op = "create_slots"
    /\ LET pk      == inflight[r].pk
           local   == inflight[r].local
           numbers == create_slots_numbers(pk, local.floor, local.count,
                                           local.existing_count)
           ids     == SubSeq(FreeSlotIds, 1, local.count)
           Row(id) == LET i == CHOOSE k \in DOMAIN ids : ids[k] = id
                      IN [facility |-> pk, floor |-> local.floor,
                          slot_number |-> numbers[i]]
       IN IF \/ \E i \in DOMAIN numbers : slot_number_taken(pk, numbers[i], "none")
             \/ \E i \in DOMAIN numbers, j \in DOMAIN numbers :
                   i # j /\ numbers[i] = numbers[j]
          THEN /\ Finish(r, "create_slots", pk, HTTP_500_INTERNAL_SERVER_ERROR)
               /\ UNCHANGED slots
          ELSE /\ slots' = slots @@ [id \in {ids[k] : k \in DOMAIN ids} |-> Row(id)]
               /\ Finish(r, "create_slots", pk, HTTP_201_CREATED)
    /\ UNCHANGED <<bookings, hist, now, resp, disputes, spots, facilities,
                   listings, listing_slots>>

\* POST /commercial-slots/: the serializer's UniqueTogetherValidator answers
\* 400 for a slot_number the facility already has
slot_create(user, data) ==
    /\ Cardinality(DOMAIN slots) + Reserved(Requests) < Len(SlotIdOrder)
    /\ LET pk == Head(FreeSlotIds)
       IN IF \/ data.facility \notin DOMAIN facilities
             \/ slot_number_taken(data.facility, data.slot_number, "none")
          THEN /\ resp' = Response("slot_create", user, pk, HTTP_400_BAD_REQUEST)
               /\ UNCHANGED slots
          ELSE /\ slots' = slots @@ (pk :> [facility |-> data.facility,
                                            floor |-> data.floor,
                                            slot_number |-> data.slot_number])
               /\ resp' = Response("slot_create", user, pk, HTTP_201_CREATED)
    /\ UNCHANGED <<bookings, hist, now, disputes, spots, facilities, listings,
                   listing_slots, inflight>>

\* PUT /commercial-slots/<pk>/
slot_update(user, pk, data) ==
    /\ IF pk \notin DOMAIN slots
       THEN /\ resp' = Response("slot_update", user, pk, HTTP_404_NOT_FOUND)
            /\ UNCHANGED slots
       ELSE IF \/ data.facility \notin DOMAIN facilities
               \/ slot_number_taken(data.facility, data.slot_number, pk)
       THEN /\ resp' = Response("slot_update", user, pk, HTTP_400_BAD_REQUEST)
            /\ UNCHANGED slots
       ELSE /\ slots' = [slots EXCEPT ![pk] = [facility |-> data.facility,
                                                floor |-> data.floor,
                                                slot_number |-> data.slot_number]]
            /\ resp' = Response("slot_update", user, pk, HTTP_200_OK)
    /\ UNCHANGED <<bookings, hist, now, disputes, spots, facilities, listings,
                   listing_slots, inflight>>

\* DELETE /commercial-slots/<pk>/
slot_destroy(user, pk) ==
    /\ IF pk \notin DOMAIN slots
       THEN /\ resp' = Response("slot_destroy", user, pk, HTTP_404_NOT_FOUND)
            /\ UNCHANGED slots
       ELSE /\ slots' = [id \in DOMAIN slots \ {pk} |-> slots[id]]
            /\ resp' = Response("slot_destroy", user, pk, HTTP_204_NO_CONTENT)
    /\ UNCHANGED <<bookings, hist, now, disputes, spots, facilities, listings,
                   listing_slots, inflight>>

\* one facility of the host, no slots yet
InitSlots ==
    /\ bookings = <<>>
    /\ hist = <<>>
    /\ now = 0
    /\ resp = NoResponse
    /\ disputes = <<>>
    /\ spots = <<>>
    /\ facilities = ("f1" :> [owner |-> "other"])
    /\ slots = <<>>
    /\ listings = <<>>
    /\ listing_slots = <<>>
    /\ inflight = [r \in Requests |-> IdleRequest]

NextSlots ==
    \/ \E r \in Requests, user \in Hosts, pk \in FacilityIds, data \in CreateSlotsData :
          create_slots_count(r, user, pk, data)
    \/ \E r \in Requests : create_slots_bulk_create(r)
    \/ \E user \in Hosts, data \in SlotData : slot_create(user, data)
    \/ \E user \in Hosts, pk \in DOMAIN slots, data \in SlotData :
          slot_update(user, pk, data)
    \/ \E user \in Hosts, pk \in DOMAIN slots : slot_destroy(user, pk)

SpecSlots == InitSlots /\ [][NextSlots]_vars

\* C29: create_slots with count n >= 0 answers 201 and adds exactly n slots
\* to the facility, none with a slot_number the facility already has, after
\* any create_slots calls, deletions, creations and edits through the slot
\* API, two create_slots calls at once for one floor included.
C29_CreateSlotsAddsExactlyCount ==
    [][\A r \in Requests :
          (inflight[r].pc = "counted" /\ inflight'[r].pc = "done"
              /\ create_slots_bulk_create(r))
             => /\ inflight'[r].status_code = HTTP_201_CREATED
                /\ Cardinality(DOMAIN slots' \ DOMAIN slots) = inflight[r].local.count
                /\ \A id \in DOMAIN slots : id \in DOMAIN slots' /\ slots'[id] = slots[id]
                /\ \A id \in DOMAIN slots' \ DOMAIN slots :
                      /\ slots'[id].facility = inflight[r].pk
                      /\ ~slot_number_taken(inflight[r].pk, slots'[id].slot_number, "none")
      ]_vars
====
